---- MODULE Spec2Model ----
(***************************************************************************)
(* Model of backend/services/llm_providers/main_text_generation.py:        *)
(* llm_text_gen, the dispatcher that selects a provider, checks the        *)
(* subscription quota, invokes the provider (with one fallback) and        *)
(* records usage in the usage_summaries table.                             *)
(*                                                                         *)
(* Every request is a process that runs llm_text_gen once.  The steps of   *)
(* one request interleave with the steps of the others at the points       *)
(* where the code touches the database or a provider.                      *)
(***************************************************************************)
EXTENDS Integers, Sequences, FiniteSets, TLC

(***************************************************************************)
(* Bounds of the model.                                                    *)
(***************************************************************************)
NumRequests == 2

Requests == 1 .. NumRequests
Users == {"u1"}
Plans == {"basic", "pro"}
NoUser == ""
PromptWords == {10}
LongPromptWords == {10, 2100, 3007}
ResponseWords == {0, 67, 3100}
InitTokens == {980}

(***************************************************************************)
(* State.                                                                  *)
(***************************************************************************)
VARIABLES
    env_provider,       \* GPT_PROVIDER, lower-cased
    api_keys,           \* providers for which APIKeyManager has a key
    user_plan,          \* the subscription plan of each user
    pricing_raises,     \* whether calculate_api_cost can raise
    usage_summaries,    \* committed rows, per user (current billing period)
    req,                \* the requests: locals of llm_text_gen and its position
    monitor,            \* scripts/monitor_resources.py: the ResourceMonitor run
    checker             \* scripts/check_system_requirements.py: the checker run

vars == <<env_provider, api_keys, user_plan, pricing_raises, usage_summaries, req,
          monitor, checker>>

(***************************************************************************)
(* Program constants.                                                      *)
(***************************************************************************)
max_tokens == 4000

Supported == {"google", "huggingface", "openrouter"}
EnvValues == {"", "google", "huggingface", "openrouter"}
OverrideValues ==
    {"", "gemini", "google", "hf_response_api", "huggingface", "hf",
     "openrouter", "or", "anthropic"}
Enums == {"gemini", "mistral", "openrouter"}
fallback_order == <<"google", "openrouter", "huggingface">>

NoResponse == -1
ProviderError == -2

Min(a, b) == IF a < b THEN a ELSE b
Max(a, b) == IF a > b THEN a ELSE b

(***************************************************************************)
(* Provider selection, lines 41-110.                                       *)
(***************************************************************************)
EnvProviderDefault(env) ==
    IF env \in {"gemini", "google"} THEN "google"
    ELSE IF env \in {"hf_response_api", "huggingface", "hf"} THEN "huggingface"
    ELSE IF env \in {"openrouter", "or"} THEN "openrouter"
    ELSE "google"

AutoDetect(avail) ==
    IF "google" \in avail THEN "google"
    ELSE IF "openrouter" \in avail THEN "openrouter"
    ELSE IF "huggingface" \in avail THEN "huggingface"
    ELSE ""

SelectIgnoringOverride(env, avail) == AutoDetect(avail)

SelectFailsOnMissingKey(env, avail) ==
    IF env = "" THEN AutoDetect(avail)
    ELSE IF EnvProviderDefault(env) \in avail THEN EnvProviderDefault(env)
    ELSE ""

SelectProvider(env, avail) ==
    IF env = "" THEN AutoDetect(avail)
    ELSE IF EnvProviderDefault(env) \in avail THEN EnvProviderDefault(env)
    ELSE AutoDetect(avail)

ProviderEnum(p) ==
    CASE p = "google" -> "gemini"
      [] p = "huggingface" -> "mistral"
      [] p = "openrouter" -> "openrouter"
      [] OTHER -> ""

FallbackProvidersIncludingFailed(avail, gpt) ==
    SelectSeq(fallback_order, LAMBDA p : p \in avail)

FallbackProvidersWithoutCredentials(avail, gpt) ==
    SelectSeq(fallback_order, LAMBDA p : p # gpt)

FallbackProviders(avail, gpt) ==
    SelectSeq(fallback_order, LAMBDA p : p \in avail /\ p # gpt)

(***************************************************************************)
(* Token estimation, lines 150-158 and 298-300.                            *)
(***************************************************************************)
EstimateTokens(words) == (words * 13) \div 10

\* Line 150: the input estimate of the pre-flight check.
InputTokens(prompt) == EstimateTokens(prompt)

\* Lines 298 and 722: the input estimate of the accounting step.
TokensInputRoundedUp(prompt) == (prompt * 13 + 9) \div 10

TokensInput(prompt) == EstimateTokens(prompt)

EstimatedTotalTokensLargerOutput(prompt) ==
    EstimateTokens(prompt)
        + Max(max_tokens, (EstimateTokens(prompt) * 15) \div 10)

EstimatedTotalTokens(prompt) ==
    LET input_tokens == InputTokens(prompt)
        estimated_output_tokens ==
            IF max_tokens # 0 THEN max_tokens ELSE (input_tokens * 15) \div 10
    IN  input_tokens + estimated_output_tokens

TokensTotal(prompt, response) ==
    TokensInput(prompt) + EstimateTokens(response)

(***************************************************************************)
(* The limits of a plan (PricingService.get_user_limits reads those of the *)
(* user's plan; 0 = unlimited, as are all tokens of plan "enterprise") and *)
(* the pricing table                                                       *)
(* (PricingService.calculate_api_cost).                                    *)
(***************************************************************************)
PlanTokenLimit(p, e) ==
    IF p = "enterprise" THEN 0
    ELSE IF p = "basic"
    THEN (CASE e = "gemini" -> 1000 [] e = "openrouter" -> 5000 [] OTHER -> 0)
    ELSE (CASE e = "gemini" -> 5000 [] e = "openrouter" -> 1000 [] OTHER -> 5000)

PlanCallLimit(p, e) ==
    IF p = "basic"
    THEN (CASE e = "mistral" -> 2 [] OTHER -> 0)
    ELSE (CASE e = "gemini" -> 2 [] OTHER -> 0)

CalculateApiCost(tokens_input, tokens_output) ==
    tokens_input + 2 * tokens_output

TokenLimit(u, e) == PlanTokenLimit(user_plan[u], e)

CallLimit(u, e) == PlanCallLimit(user_plan[u], e)

(***************************************************************************)
(* Rows of usage_summaries, by (user, billing period).  exists says        *)
(* whether a row of the key is in the table, rows how many there are; the  *)
(* counters are those every session reads and updates for the key.         *)
(***************************************************************************)
ZeroRow ==
    [exists |-> FALSE, rows |-> 0,
     calls |-> [e \in Enums |-> 0],
     tokens |-> [e \in Enums |-> 0],
     cost |-> [e \in Enums |-> 0],
     total_calls |-> 0, total_tokens |-> 0, total_cost |-> 0]

InitRow(t) ==
    [exists |-> TRUE, rows |-> 1,
     calls |-> [e \in Enums |-> 1],
     tokens |-> [e \in Enums |-> t],
     cost |-> [e \in Enums |-> 2 * t],
     total_calls |-> 3, total_tokens |-> 3 * t, total_cost |-> 6 * t]

InitRows == {ZeroRow} \cup {InitRow(t) : t \in InitTokens}

(***************************************************************************)
(* PricingService.check_usage_limits: the admission check.                 *)
(***************************************************************************)
CheckUsageLimits(row, u, e, tokens_requested) ==
    /\ (CallLimit(u, e) > 0 => row.calls[e] + 1 <= CallLimit(u, e))
    /\ (TokenLimit(u, e) > 0 => row.tokens[e] + tokens_requested <= TokenLimit(u, e))

(***************************************************************************)
(* The ledger computation, lines 414-530 (primary) and 799-868 (fallback). *)
(***************************************************************************)
TracksTokens(path, e) ==
    IF path = "primary" THEN e \in {"gemini", "mistral"}
    ELSE e \in {"gemini", "mistral", "openrouter"}

Capped(token_limit, before, tokens_total) ==
    token_limit > 0 /\ before + tokens_total > token_limit

NewCallsUnchanged(before) == before

NewCallsCountsTwice(before) == before + 2

NewCalls(before) == before + 1

NewTokensUncapped(path, e, token_limit, before, tokens_total) ==
    IF ~TracksTokens(path, e) THEN 0 ELSE before + tokens_total

NewTokens(path, e, token_limit, before, tokens_total) ==
    IF ~TracksTokens(path, e) THEN 0
    ELSE IF Capped(token_limit, before, tokens_total) THEN token_limit
    ELSE before + tokens_total

TrackedTotalBeforeClamp(path, e, token_limit, before, tokens_total) ==
    tokens_total

TrackedTotal(path, e, token_limit, before, tokens_total) ==
    IF TracksTokens(path, e) /\ Capped(token_limit, before, tokens_total)
    THEN Max(token_limit - before, 0)
    ELSE tokens_total

TrackedInput(tokens_input, tracked) == Min(tokens_input, tracked)

TrackedOutputWholeTotal(tokens_input, tracked) == tracked

TrackedOutput(tokens_input, tracked) ==
    Max(tracked - TrackedInput(tokens_input, tracked), 0)

CostTotalDespiteFailure(tokens_input, tracked, cost_fails) ==
    CalculateApiCost(TrackedInput(tokens_input, tracked),
                     TrackedOutput(tokens_input, tracked))

CostTotal(tokens_input, tracked, cost_fails) ==
    IF cost_fails THEN 0
    ELSE CalculateApiCost(TrackedInput(tokens_input, tracked),
                          TrackedOutput(tokens_input, tracked))

ApplyRecord(row, snap, path, u, e, prompt, response, cost_fails) ==
    LET limit == TokenLimit(u, e)
        total == TokensTotal(prompt, response)
        tracked == TrackedTotal(path, e, limit, snap.tokens[e], total)
        cost == CostTotal(TokensInput(prompt), tracked, cost_fails)
    IN  [row EXCEPT
            !.exists = TRUE,
            !.rows = IF snap.exists THEN @ ELSE @ + 1,
            !.calls[e] = NewCalls(snap.calls[e]),
            !.tokens[e] = IF TracksTokens(path, e)
                          THEN NewTokens(path, e, limit, snap.tokens[e], total)
                          ELSE @,
            !.cost[e] = IF cost > 0 THEN snap.cost[e] + cost ELSE @,
            !.total_cost = IF cost > 0 THEN snap.total_cost + cost ELSE @,
            !.total_calls = snap.total_calls + 1,
            !.total_tokens = snap.total_tokens + tracked]

(***************************************************************************)
(* The statements of one record in the order the code executes them inside *)
(* the transaction of its session: 1 insert and flush of a missing row     *)
(* (393-400), 2 calls (414-430), 3 tokens (436-470), 4 cost (479-510),     *)
(* 5 totals (514-530).  PartialRecord is the row as the session sees it    *)
(* after the first n statements.                                           *)
(***************************************************************************)
TxStatements == 5

PartialRecord(row, snap, path, u, e, prompt, response, n) ==
    LET full == ApplyRecord(row, snap, path, u, e, prompt, response, FALSE)
    IN  [row EXCEPT
            !.exists = IF n >= 1 THEN full.exists ELSE @,
            !.rows = IF n >= 1 THEN full.rows ELSE @,
            !.calls[e] = IF n >= 2 THEN full.calls[e] ELSE @,
            !.tokens[e] = IF n >= 3 THEN full.tokens[e] ELSE @,
            !.cost[e] = IF n >= 4 THEN full.cost[e] ELSE @,
            !.total_cost = IF n >= 4 THEN full.total_cost ELSE @,
            !.total_calls = IF n >= 5 THEN full.total_calls ELSE @,
            !.total_tokens = IF n >= 5 THEN full.total_tokens ELSE @]

(***************************************************************************)
(* Lines 620 and 917: rollback discards what the session has written.      *)
(***************************************************************************)
RollbackKeepsWrites(row, partial) == partial

Rollback(row, partial) == row

(***************************************************************************)
(* The unique key (user_id, billing_period) of usage_summaries: inserting  *)
(* a row for a key that another transaction has committed meanwhile fails. *)
(***************************************************************************)
InsertNeverConflicts(row, snap) == FALSE

InsertConflict(row, snap) == row.exists /\ ~snap.exists

(***************************************************************************)
(* The exceptions that leave llm_text_gen.  Lines 171-177: the detail of   *)
(* the HTTP 429 raised on a denial.  Lines 190-199: the handlers of the     *)
(* subscription check re-raise an HTTPException and a RuntimeError and     *)
(* wrap anything else in a RuntimeError.  Lines 931-933: the handler of    *)
(* the function logs and re-raises.                                        *)
(***************************************************************************)
ActualProviderName(gp) ==
    CASE gp = "google" -> "gemini"
      [] gp = "huggingface" -> "huggingface"
      [] gp = "openrouter" -> "openrouter"
      [] OTHER -> ""

NoDetail == [error |-> "", message |-> "", provider |-> "", usage_info |-> ""]

ErrorDetail(message, provider, usage_info) ==
    [error |-> message, message |-> message, provider |-> provider,
     usage_info |-> usage_info]

SubscriptionHandlersWrapAll(exc) == "RuntimeError"

SubscriptionHandlers(exc) ==
    IF exc = "HTTPException429" THEN "HTTPException429"
    ELSE IF exc = "RuntimeError" THEN "RuntimeError"
    ELSE "RuntimeError"

OuterHandler(exc) == exc

(***************************************************************************)
(* A request: the locals of one llm_text_gen call (pc, user_id, prompt,    *)
(* gpt_provider, provider_enum, response_text, snap = the values read by   *)
(* the tracking session) and what the call has done so far; error and      *)
(* detail are the exception the call has raised to its caller.             *)
(***************************************************************************)
IdleRequest ==
    [pc |-> "idle", user_id |-> NoUser, prompt |-> 0,
     gpt_provider |-> "", provider_enum |-> "", fallback_provider |-> "",
     response_text |-> NoResponse, snap |-> ZeroRow,
     outcome |-> "none", returned |-> NoResponse,
     invocations |-> 0, fallback_invocations |-> 0, producer |-> "",
     quota_checks |-> 0, over_quota |-> FALSE, estimated_total_tokens |-> 0,
     input_tokens |-> 0, tokens_input |-> 0,
     json_struct |-> FALSE, attempt_number |-> 0, failed_attempts |-> 0,
     last_failure |-> "none", openrouter_result |-> "none", admitted |-> {},
     stored_at_ceiling |-> FALSE, cost_failed |-> FALSE,
     primary_failed |-> FALSE, fallback_failed |-> FALSE,
     ledger_attempts |-> 0, ledger_enum |-> "", ledger_fault |-> "none",
     committed |-> FALSE, tx_step |-> 0, verify_reads |-> 0, recommits |-> 0,
     error |-> "none", detail |-> NoDetail]

(***************************************************************************)
(* scripts/monitor_resources.py and scripts/check_system_requirements.py:  *)
(* the state of a run before the script has started.                       *)
(***************************************************************************)
alert_threshold_mb == 6144

NoReport == [used_mb |-> 0, percent |-> 0, alerts |-> <<>>, status |-> "none"]

IdleMonitor ==
    [pc |-> "idle", once |-> FALSE, threshold |-> alert_threshold_mb,
     max_iterations |-> <<>>, iteration |-> 0, report |-> NoReport,
     reports |-> 0, log_calls |-> 0, written |-> 0, sleeps |-> 0]

IdleChecker ==
    [pc |-> "idle", results |-> <<>>, issues |-> <<>>, warnings |-> <<>>,
     all_ok |-> TRUE, raised |-> "none", exit_status |-> 0]

Init ==
    /\ env_provider \in EnvValues
    /\ api_keys \in SUBSET Supported
    /\ user_plan \in [Users -> Plans]
    /\ pricing_raises = FALSE
    /\ monitor = IdleMonitor
    /\ checker = IdleChecker
    /\ usage_summaries \in [Users -> InitRows]
    /\ req = [r \in Requests |-> IdleRequest]

(***************************************************************************)
(* Lines 36-134: provider selection and the user_id check.                 *)
(***************************************************************************)
AfterSelectionDefaultsToGoogle(q, gp, uid, p) ==
    IF uid = NoUser
    THEN [q EXCEPT !.pc = "done", !.user_id = uid, !.prompt = p,
                   !.gpt_provider = gp, !.provider_enum = ProviderEnum(gp),
                   !.outcome = "no_user_id"]
    ELSE [q EXCEPT !.pc = "check", !.user_id = uid, !.prompt = p,
                   !.gpt_provider = IF gp = "" THEN "google" ELSE gp,
                   !.provider_enum = ProviderEnum(IF gp = "" THEN "google" ELSE gp)]

AfterSelectionDeniesAnonymous(q, gp, uid, p) ==
    IF gp = ""
    THEN [q EXCEPT !.pc = "done", !.user_id = uid, !.prompt = p,
                   !.outcome = "no_api_keys"]
    ELSE IF uid = NoUser
    THEN [q EXCEPT !.pc = "done", !.user_id = uid, !.prompt = p,
                   !.gpt_provider = gp, !.provider_enum = ProviderEnum(gp),
                   !.quota_checks = @ + 1, !.outcome = "denied"]
    ELSE [q EXCEPT !.pc = "check", !.user_id = uid, !.prompt = p,
                   !.gpt_provider = gp, !.provider_enum = ProviderEnum(gp)]

AfterSelection(q, gp, uid, p) ==
    IF gp = ""
    THEN [q EXCEPT !.pc = "done", !.user_id = uid, !.prompt = p,
                   !.outcome = "no_api_keys",
                   !.error = OuterHandler("RuntimeError")]
    ELSE IF uid = NoUser
    THEN [q EXCEPT !.pc = "done", !.user_id = uid, !.prompt = p,
                   !.gpt_provider = gp, !.provider_enum = ProviderEnum(gp),
                   !.outcome = "no_user_id",
                   !.error = OuterHandler("RuntimeError")]
    ELSE [q EXCEPT !.pc = "check", !.user_id = uid, !.prompt = p,
                   !.gpt_provider = gp, !.provider_enum = ProviderEnum(gp)]

StartWith(r, prompts) ==
    /\ req[r].pc = "idle"
    /\ \E uid \in Users \cup {NoUser}, p \in prompts :
        req' = [req EXCEPT ![r] =
            AfterSelection(@, SelectProvider(env_provider, api_keys), uid, p)]
    /\ UNCHANGED <<env_provider, api_keys, user_plan, pricing_raises, usage_summaries,
                    monitor, checker>>

Start(r) == StartWith(r, PromptWords)

StartLong(r) == StartWith(r, LongPromptWords)

(***************************************************************************)
(* Lines 136-199: the subscription check.  The session of the check is     *)
(* closed without a commit.                                                *)
(***************************************************************************)
ExceedsAllowance(row, u, e, tokens_requested) ==
    TokenLimit(u, e) > 0 /\ tokens_requested > TokenLimit(u, e) - row.tokens[e]

AfterCheckIgnoresDenial(q, check_fails, can_proceed, over) ==
    IF check_fails
    THEN [q EXCEPT !.pc = "done", !.outcome = "subscription_check_failed"]
    ELSE [q EXCEPT !.pc = "call", !.quota_checks = @ + 1, !.over_quota = over,
                   !.admitted = @ \cup {q.provider_enum}]

AfterCheckFailsOpen(q, check_fails, can_proceed, over) ==
    IF check_fails \/ can_proceed
    THEN [q EXCEPT !.pc = "call", !.quota_checks = @ + 1, !.over_quota = over,
                   !.outcome = IF check_fails THEN "subscription_check_failed"
                               ELSE @,
                   !.admitted = @ \cup {q.provider_enum}]
    ELSE [q EXCEPT !.pc = "done", !.outcome = "denied",
                   !.quota_checks = @ + 1, !.over_quota = over,
                   !.error = OuterHandler(SubscriptionHandlers("HTTPException429")),
                   !.detail = ErrorDetail("limit_exceeded",
                                  ActualProviderName(q.gpt_provider), "usage")]

AfterCheck(q, check_fails, can_proceed, over) ==
    IF check_fails
    THEN [q EXCEPT !.pc = "done", !.outcome = "subscription_check_failed",
                   !.error = OuterHandler(SubscriptionHandlers("Exception"))]
    ELSE IF ~can_proceed
    THEN [q EXCEPT !.pc = "done", !.outcome = "denied",
                   !.quota_checks = @ + 1, !.over_quota = over,
                   !.error = OuterHandler(SubscriptionHandlers("HTTPException429")),
                   !.detail = ErrorDetail("limit_exceeded",
                                  ActualProviderName(q.gpt_provider), "usage")]
    ELSE [q EXCEPT !.pc = "call", !.quota_checks = @ + 1, !.over_quota = over,
                   !.admitted = @ \cup {q.provider_enum}]

CommitOnClose(row) == [row EXCEPT !.exists = TRUE, !.rows = @ + 1]

CloseWithoutCommit(row) == row

SubscriptionCheck(r) ==
    /\ req[r].pc = "check"
    /\ \E check_fails \in BOOLEAN :
        LET est == EstimatedTotalTokens(req[r].prompt)
            q == [req[r] EXCEPT !.estimated_total_tokens = est,
                                !.input_tokens = InputTokens(req[r].prompt)]
            row == usage_summaries[q.user_id]
        IN
        /\ req' = [req EXCEPT ![r] =
                AfterCheck(q, check_fails,
                    CheckUsageLimits(row, q.user_id, q.provider_enum, est),
                    ExceedsAllowance(row, q.user_id, q.provider_enum, est))]
        /\ usage_summaries' = [usage_summaries EXCEPT
                ![q.user_id] = CloseWithoutCommit(@)]
    /\ UNCHANGED <<env_provider, api_keys, user_plan, pricing_raises, monitor, checker>>

(***************************************************************************)
(* Lines 290-292, 627 and 714-716, 923: a truthy response is tracked       *)
(* before it is returned, a falsy one is returned at once.                 *)
(***************************************************************************)
TrackAlways(response) == TRUE

ShouldTrack(response) == response # 0

OnResponse(q, provider, res, track_pc) ==
    IF ShouldTrack(res)
    THEN [q EXCEPT !.pc = track_pc, !.invocations = @ + 1,
                   !.producer = provider, !.response_text = res]
    ELSE [q EXCEPT !.pc = "done", !.invocations = @ + 1,
                   !.producer = provider, !.response_text = res,
                   !.returned = res, !.outcome = "result"]

(***************************************************************************)
(* Lines 628-653: the primary call raised; one fallback provider is chosen *)
(* and provider_enum is switched to it.  Lines 924-929: the fallback       *)
(* raised, or there is none.                                               *)
(***************************************************************************)
KeepPrimaryEnum(gpt, fallback_provider) == ProviderEnum(gpt)

FallbackProviderEnum(gpt, fallback_provider) == ProviderEnum(fallback_provider)

OnProviderErrorGivesUp(q, fallback_providers) ==
    [q EXCEPT !.pc = "done", !.invocations = @ + 1,
              !.primary_failed = TRUE, !.outcome = "all_failed",
              !.error = OuterHandler("RuntimeError")]

OnProviderError(q, fallback_providers) ==
    IF fallback_providers = << >>
    THEN [q EXCEPT !.pc = "done", !.invocations = @ + 1,
                   !.primary_failed = TRUE, !.outcome = "all_failed",
                   !.error = OuterHandler("RuntimeError")]
    ELSE [q EXCEPT !.pc = "fb_call", !.invocations = @ + 1,
                   !.primary_failed = TRUE,
                   !.fallback_provider = fallback_providers[1],
                   !.provider_enum =
                       FallbackProviderEnum(q.gpt_provider, fallback_providers[1])]

OnFallbackErrorSwallowed(q) ==
    [q EXCEPT !.pc = "done", !.invocations = @ + 1,
              !.fallback_failed = TRUE, !.outcome = "result"]

OnFallbackErrorRetry(q) ==
    [q EXCEPT !.invocations = @ + 1, !.fallback_failed = TRUE]

OnFallbackError(q) ==
    [q EXCEPT !.pc = "done", !.invocations = @ + 1,
              !.fallback_failed = TRUE, !.outcome = "all_failed",
              !.error = OuterHandler("RuntimeError")]

PrimaryCall(r) ==
    /\ req[r].pc = "call"
    /\ \E res \in ResponseWords \cup {ProviderError} :
        req' = [req EXCEPT ![r] =
            IF res = ProviderError
            THEN OnProviderError(@, FallbackProviders(api_keys, @.gpt_provider))
            ELSE OnResponse(@, @.gpt_provider, res, "track")]
    /\ UNCHANGED <<env_provider, api_keys, user_plan, pricing_raises, usage_summaries,
                    monitor, checker>>

FallbackCall(r) ==
    /\ req[r].pc = "fb_call"
    /\ \E res \in ResponseWords \cup {ProviderError} :
        LET q == [req[r] EXCEPT !.fallback_invocations = @ + 1] IN
        req' = [req EXCEPT ![r] =
            IF res = ProviderError
            THEN OnFallbackError(q)
            ELSE OnResponse(q, q.fallback_provider, res, "fb_track")]
    /\ UNCHANGED <<env_provider, api_keys, user_plan, pricing_raises, usage_summaries,
                    monitor, checker>>

(***************************************************************************)
(* Lines 618-627 and 915-923: the handlers of the tracking block.  A fault *)
(* of get_db, of the rollback or of the close reaches the outer handler, a *)
(* fault inside the session the inner one, which rolls back; both log and  *)
(* fall through to the return of the response.                             *)
(***************************************************************************)
OnUsageError(q) ==
    [q EXCEPT !.pc = "done", !.ledger_fault = "usage_error", !.snap = ZeroRow,
              !.tokens_input = 0,
              !.returned = q.response_text, !.outcome = "result"]

OnTrackErrorRaises(q) ==
    [q EXCEPT !.pc = "done", !.ledger_fault = "track_error", !.snap = ZeroRow,
              !.tokens_input = 0,
              !.outcome = "all_failed"]

OnTrackError(q) ==
    [q EXCEPT !.pc = "done", !.ledger_fault = "track_error", !.snap = ZeroRow,
              !.tokens_input = 0,
              !.returned = q.response_text, !.outcome = "result"]

ReturnResponseNeverReturns(q) ==
    [q EXCEPT !.pc = "returning", !.snap = ZeroRow]

ReturnResponse(q) ==
    [q EXCEPT !.pc = "done", !.snap = ZeroRow,
              !.returned = q.response_text, !.outcome = "result"]

(***************************************************************************)
(* Lines 293-411 and 717-794: open the tracking session and read the row.  *)
(***************************************************************************)
ReadRow(r, from, to) ==
    /\ req[r].pc = from
    /\ \E fault \in {"none", "session", "read"} :
        LET q == [req[r] EXCEPT !.ledger_attempts = @ + 1,
                                !.ledger_enum = req[r].provider_enum]
        IN
        req' = [req EXCEPT ![r] =
            IF fault = "session" THEN OnUsageError(q)
            ELSE IF fault = "read" THEN OnTrackError(q)
            ELSE [q EXCEPT !.pc = to, !.snap = usage_summaries[q.user_id],
                           !.tokens_input = TokensInput(q.prompt)]]
    /\ UNCHANGED <<env_provider, api_keys, user_plan, pricing_raises, usage_summaries,
                    monitor, checker>>

TrackRead(r) == ReadRow(r, "track", "commit")

FallbackTrackRead(r) == ReadRow(r, "fb_track", "fb_commit")

(***************************************************************************)
(* Lines 414-567 and 799-895: the updates and the commit.  A fault before  *)
(* the commit rolls the transaction back; when the rollback raises too the *)
(* outer handler catches it and the session is closed uncommitted.         *)
(***************************************************************************)
\* Lines 441-470 and 808-831: new_tokens of the record is the ceiling.
StoredAtCeiling(q, path) ==
    LET e == q.provider_enum
        limit == TokenLimit(q.user_id, e)
    IN  /\ TracksTokens(path, e)
        /\ limit > 0
        /\ NewTokens(path, e, limit, q.snap.tokens[e],
                     TokensTotal(q.prompt, q.response_text)) = limit

\* Lines 565-567 and 893-895: the commit of the record has returned.
Committed(q, path, cost_fails) ==
    [q EXCEPT !.committed = TRUE, !.cost_failed = cost_fails,
              !.stored_at_ceiling = StoredAtCeiling(q, path)]

WriteRow(r, from, to, path) ==
    /\ req[r].pc = from
    /\ \E fault \in {"none", "write", "rollback"},
          cost_fails \in {FALSE, pricing_raises} :
        LET q == req[r]
            row == usage_summaries[q.user_id]
        IN
        IF fault = "rollback"
        THEN /\ req' = [req EXCEPT ![r] = OnUsageError(q)]
             /\ UNCHANGED usage_summaries
        ELSE IF fault = "write" \/ InsertConflict(row, q.snap)
        THEN /\ req' = [req EXCEPT ![r] = OnTrackError(q)]
             /\ UNCHANGED usage_summaries
        ELSE /\ usage_summaries' = [usage_summaries EXCEPT ![q.user_id] =
                    ApplyRecord(row, q.snap, path, q.user_id, q.provider_enum,
                                q.prompt, q.response_text, cost_fails)]
             /\ req' = [req EXCEPT ![r] =
                    IF to = "done"
                    THEN ReturnResponse(Committed(q, path, cost_fails))
                    ELSE [Committed(q, path, cost_fails) EXCEPT !.pc = to]]
    /\ UNCHANGED <<env_provider, api_keys, user_plan, pricing_raises, monitor, checker>>

TrackCommit(r) == WriteRow(r, "commit", "verify", "primary")

FallbackTrackCommit(r) == WriteRow(r, "fb_commit", "done", "fallback")

(***************************************************************************)
(* Lines 571-627: read the row back and compare, then return.  On a        *)
(* mismatch the session commits once more (nothing is written again) and   *)
(* reads the row a second time; both outcomes are only logged.             *)
(***************************************************************************)
VerifyMismatch(row, q) ==
    LET e == q.provider_enum IN
    \/ row.calls[e] # NewCalls(q.snap.calls[e])
    \/ row.tokens[e] # NewTokens("primary", e, TokenLimit(q.user_id, e),
                           q.snap.tokens[e], TokensTotal(q.prompt, q.response_text))

VerifyCommit(r) ==
    /\ req[r].pc = "verify"
    /\ \E fault \in BOOLEAN :
        LET q == req[r]
            verdict == IF fault THEN "verify_error"
                       ELSE IF VerifyMismatch(usage_summaries[q.user_id], q)
                       THEN "verify_mismatch"
                       ELSE q.ledger_fault
        IN
        req' = [req EXCEPT ![r] =
            ReturnResponse([q EXCEPT
                !.ledger_fault = verdict,
                !.verify_reads = IF verdict = "verify_mismatch" THEN 2 ELSE 1,
                !.recommits = IF verdict = "verify_mismatch" THEN 1 ELSE 0])]
    /\ UNCHANGED <<env_provider, api_keys, user_plan, pricing_raises, usage_summaries,
                    monitor, checker>>

\* The committed row of the user of request r.
Row(r) == usage_summaries[req[r].user_id]

\* The tracking block request r is in: that of the primary call or that of
\* the fallback call.
PathOf(r) == IF req[r].pc \in {"fb_track", "fb_commit"} THEN "fallback" ELSE "primary"

(***************************************************************************)
(* The record statement by statement: TxStatement executes the next        *)
(* statement of the transaction, TxAbort is an exception at any point      *)
(* before the commit (handler 618-622, 915-919), TxCommit the commit of    *)
(* lines 566-567 and 894-895.  Other sessions read only committed rows.    *)
(***************************************************************************)
TxStatement(r) ==
    /\ req[r].pc \in {"commit", "fb_commit"}
    /\ req[r].tx_step < TxStatements
    /\ ~(req[r].tx_step = 0 /\ InsertConflict(Row(r), req[r].snap))
    /\ req' = [req EXCEPT ![r].tx_step = @ + 1]
    /\ UNCHANGED <<env_provider, api_keys, user_plan, pricing_raises, usage_summaries,
                    monitor, checker>>

TxAbort(r) ==
    /\ req[r].pc \in {"commit", "fb_commit"}
    /\ LET q == req[r]
           partial == PartialRecord(Row(r), q.snap, PathOf(r), q.user_id,
                          q.provider_enum, q.prompt, q.response_text, q.tx_step)
       IN  /\ usage_summaries' = [usage_summaries EXCEPT
                   ![q.user_id] = Rollback(@, partial)]
           /\ req' = [req EXCEPT ![r] = OnTrackError(q)]
    /\ UNCHANGED <<env_provider, api_keys, user_plan, pricing_raises, monitor, checker>>

TxCommit(r) ==
    /\ req[r].pc \in {"commit", "fb_commit"}
    /\ req[r].tx_step = TxStatements
    /\ LET q == req[r] IN
       /\ usage_summaries' = [usage_summaries EXCEPT ![q.user_id] =
               PartialRecord(@, q.snap, PathOf(r), q.user_id, q.provider_enum,
                             q.prompt, q.response_text, q.tx_step)]
       /\ req' = [req EXCEPT ![r] =
               IF q.pc = "fb_commit"
               THEN ReturnResponse(Committed(q, PathOf(r), FALSE))
               ELSE [Committed(q, PathOf(r), FALSE) EXCEPT !.pc = "verify"]]
    /\ UNCHANGED <<env_provider, api_keys, user_plan, pricing_raises, monitor, checker>>

Next ==
    \E r \in Requests :
        \/ Start(r)
        \/ SubscriptionCheck(r)
        \/ PrimaryCall(r)
        \/ FallbackCall(r)
        \/ TrackRead(r)
        \/ TrackCommit(r)
        \/ VerifyCommit(r)
        \/ FallbackTrackRead(r)
        \/ FallbackTrackCommit(r)

Spec == Init /\ [][Next]_vars

(***************************************************************************)
(* The same program under every spelling of GPT_PROVIDER that lines 51-61  *)
(* distinguish (the aliases of the three providers, an unsupported name,   *)
(* unset), for a user on plan "basic" without a row.                       *)
(***************************************************************************)
InitSelection ==
    /\ env_provider \in OverrideValues
    /\ api_keys \in SUBSET Supported
    /\ user_plan = [u \in Users |-> "basic"]
    /\ pricing_raises = FALSE
    /\ monitor = IdleMonitor
    /\ checker = IdleChecker
    /\ usage_summaries = [u \in Users |-> ZeroRow]
    /\ req = [r \in Requests |-> IdleRequest]

SpecSelection == InitSelection /\ [][Next]_vars

(***************************************************************************)
(* The same program called with long prompts too, with huggingface as the  *)
(* overridden primary (unlimited tokens on plan "basic") and openrouter as *)
(* the alternate.                                                          *)
(***************************************************************************)
InitEstimate ==
    /\ env_provider = "huggingface"
    /\ api_keys = {"huggingface", "openrouter"}
    /\ user_plan \in [Users -> Plans]
    /\ pricing_raises = FALSE
    /\ monitor = IdleMonitor
    /\ checker = IdleChecker
    /\ usage_summaries = [u \in Users |-> ZeroRow]
    /\ req = [r \in Requests |-> IdleRequest]

NextEstimate ==
    \E r \in Requests :
        \/ StartLong(r)
        \/ SubscriptionCheck(r)
        \/ PrimaryCall(r)
        \/ FallbackCall(r)
        \/ TrackRead(r)
        \/ TrackCommit(r)
        \/ VerifyCommit(r)
        \/ FallbackTrackRead(r)
        \/ FallbackTrackCommit(r)

SpecEstimate == InitEstimate /\ [][NextEstimate]_vars

(***************************************************************************)
(* The same program with the ledger record taken statement by statement,   *)
(* GPT_PROVIDER unset, keys for google and openrouter, the user on plan    *)
(* "pro".                                                                  *)
(***************************************************************************)
InitTransaction ==
    /\ env_provider = ""
    /\ api_keys = {"google", "openrouter"}
    /\ user_plan = [u \in Users |-> "pro"]
    /\ pricing_raises = FALSE
    /\ monitor = IdleMonitor
    /\ checker = IdleChecker
    /\ usage_summaries \in [Users -> InitRows]
    /\ req = [r \in Requests |-> IdleRequest]

NextTransaction ==
    \E r \in Requests :
        \/ Start(r)
        \/ SubscriptionCheck(r)
        \/ PrimaryCall(r)
        \/ FallbackCall(r)
        \/ TrackRead(r)
        \/ FallbackTrackRead(r)
        \/ TxStatement(r)
        \/ TxAbort(r)
        \/ TxCommit(r)
        \/ VerifyCommit(r)

SpecTransaction == InitTransaction /\ [][NextTransaction]_vars

(***************************************************************************)
(* openrouter_provider.py, lines 128-299: openrouter_text_response and     *)
(* openrouter_structured_json_response under                               *)
(* @retry(wait=wait_random_exponential(min=1, max=60),                     *)
(*        stop=stop_after_attempt(6)).  One attempt is one run of the      *)
(* function body; every exception of the body is re-raised by its handler  *)
(* (191-193, 297-299) and retried by the decorator (its default condition  *)
(* retries on any Exception) until the stop condition holds, when the      *)
(* decorator raises one RetryError to the caller.                          *)
(***************************************************************************)
stop_after_attempt == 6

\* The exceptions of one attempt: ValueError of get_openrouter_api_key
\* (103-106), an error of client.chat.completions.create (172, 270),
\* ValueError for an empty response or empty content (180-186, 272-278) and,
\* with a schema, ValueError for unparsable JSON (292-295).
AttemptFailures(json_struct) ==
    {"missing_key", "api_error", "empty_response"}
        \cup (IF json_struct THEN {"bad_json"} ELSE {})

\* The answers of a successful attempt, in words.
OpenRouterResponseWords == {67}

StopAfterFiveAttempts(attempt_number) == attempt_number >= 5

ShouldStop(attempt_number) == attempt_number >= stop_after_attempt

\* One attempt of the invocation at position pc of request r; on_error is the
\* request after the dispatcher has caught the RetryError.
OpenRouterAttempt(r, pc, track_pc, on_error) ==
    /\ req[r].pc = pc
    /\ LET q == [req[r] EXCEPT !.attempt_number = @ + 1] IN
       \/ \E res \in OpenRouterResponseWords :
            req' = [req EXCEPT ![r] =
                OnResponse([q EXCEPT !.openrouter_result = "returned"],
                           "openrouter", res, track_pc)]
       \/ \E failure \in AttemptFailures(req[r].json_struct) :
            LET f == [q EXCEPT !.failed_attempts = @ + 1,
                               !.last_failure = failure]
            IN  req' = [req EXCEPT ![r] =
                    IF ShouldStop(f.attempt_number)
                    THEN [on_error EXCEPT
                             !.attempt_number = f.attempt_number,
                             !.failed_attempts = f.failed_attempts,
                             !.last_failure = failure,
                             !.openrouter_result = "raised"]
                    ELSE f]
    /\ UNCHANGED <<env_provider, api_keys, user_plan, pricing_raises, usage_summaries,
                    monitor, checker>>

\* Lines 268-285: openrouter is the primary provider.
OpenRouterPrimaryCall(r) ==
    /\ req[r].gpt_provider = "openrouter"
    /\ OpenRouterAttempt(r, "call", "track",
            OnProviderError(req[r], FallbackProviders(api_keys, "openrouter")))

\* Lines 695-713: openrouter is the fallback provider.
OpenRouterFallbackCall(r) ==
    /\ req[r].fallback_provider = "openrouter"
    /\ OpenRouterAttempt(r, "fb_call", "fb_track",
            OnFallbackError([req[r] EXCEPT !.fallback_invocations = @ + 1]))

OtherPrimaryCall(r) == req[r].gpt_provider # "openrouter" /\ PrimaryCall(r)

OtherFallbackCall(r) == req[r].fallback_provider # "openrouter" /\ FallbackCall(r)

\* llm_text_gen called with or without json_struct (line 20).
StartStructured(r) ==
    /\ req[r].pc = "idle"
    /\ \E uid \in Users, p \in PromptWords, json_struct \in BOOLEAN :
        req' = [req EXCEPT ![r] =
            AfterSelection([@ EXCEPT !.json_struct = json_struct],
                           SelectProvider(env_provider, api_keys), uid, p)]
    /\ UNCHANGED <<env_provider, api_keys, user_plan, pricing_raises, usage_summaries,
                    monitor, checker>>

InitRetry ==
    /\ env_provider = ""
    /\ api_keys \in {{"google", "openrouter"}, {"openrouter", "huggingface"}}
    /\ user_plan = [u \in Users |-> "enterprise"]
    /\ pricing_raises = FALSE
    /\ monitor = IdleMonitor
    /\ checker = IdleChecker
    /\ usage_summaries = [u \in Users |-> ZeroRow]
    /\ req = [r \in Requests |-> IdleRequest]

NextRetry ==
    \E r \in Requests :
        \/ StartStructured(r)
        \/ SubscriptionCheck(r)
        \/ OpenRouterPrimaryCall(r)
        \/ OtherPrimaryCall(r)
        \/ OpenRouterFallbackCall(r)
        \/ OtherFallbackCall(r)

SpecRetry == InitRetry /\ [][NextRetry]_vars

(***************************************************************************)
(* The same program with two requests more, all of one user whose row      *)
(* holds 500 tokens per provider and whose plan ("pro") gives mistral a    *)
(* ceiling of 5000 tokens and no call ceiling; only the huggingface key is *)
(* configured.                                                             *)
(***************************************************************************)
CeilingRequests == 1 .. (NumRequests + 2)

InitCeiling ==
    /\ env_provider = ""
    /\ api_keys = {"huggingface"}
    /\ user_plan = [u \in Users |-> "pro"]
    /\ pricing_raises = FALSE
    /\ monitor = IdleMonitor
    /\ checker = IdleChecker
    /\ usage_summaries = [u \in Users |-> InitRow(500)]
    /\ req = [r \in CeilingRequests |-> IdleRequest]

NextCeiling ==
    \E r \in CeilingRequests :
        \/ Start(r)
        \/ SubscriptionCheck(r)
        \/ PrimaryCall(r)
        \/ TrackRead(r)
        \/ TrackCommit(r)
        \/ VerifyCommit(r)

SpecCeiling == InitCeiling /\ [][NextCeiling]_vars

(***************************************************************************)
(* The same program serving its requests one at a time: a request starts   *)
(* when no other request is in progress.  The user has no prior usage and  *)
(* no token ceiling.                                                       *)
(***************************************************************************)
StartSequential(r) ==
    /\ \A o \in Requests \ {r} : req[o].pc \in {"idle", "done"}
    /\ Start(r)

InitSequential ==
    /\ env_provider \in EnvValues
    /\ api_keys \in SUBSET Supported
    /\ user_plan = [u \in Users |-> "enterprise"]
    /\ pricing_raises = FALSE
    /\ monitor = IdleMonitor
    /\ checker = IdleChecker
    /\ usage_summaries = [u \in Users |-> ZeroRow]
    /\ req = [r \in Requests |-> IdleRequest]

NextSequential ==
    \E r \in Requests :
        \/ StartSequential(r)
        \/ SubscriptionCheck(r)
        \/ PrimaryCall(r)
        \/ FallbackCall(r)
        \/ TrackRead(r)
        \/ TrackCommit(r)
        \/ VerifyCommit(r)
        \/ FallbackTrackRead(r)
        \/ FallbackTrackCommit(r)

SpecSequential == InitSequential /\ [][NextSequential]_vars

(***************************************************************************)
(* The same program with a pricing service whose calculate_api_cost can    *)
(* raise; GPT_PROVIDER unset, keys for google and openrouter, the user on  *)
(* plan "pro".                                                             *)
(***************************************************************************)
InitCost ==
    /\ env_provider = ""
    /\ api_keys = {"google", "openrouter"}
    /\ user_plan = [u \in Users |-> "pro"]
    /\ pricing_raises = TRUE
    /\ monitor = IdleMonitor
    /\ checker = IdleChecker
    /\ usage_summaries \in [Users -> InitRows]
    /\ req = [r \in Requests |-> IdleRequest]

SpecCost == InitCost /\ [][Next]_vars

(***************************************************************************)
(* The same program under the assumption that every provider invocation    *)
(* and every storage operation terminates: a request that has started      *)
(* keeps taking its next step.  GPT_PROVIDER unset, the user on plan       *)
(* "pro" with no prior usage.                                              *)
(***************************************************************************)
RequestStep(r) ==
    \/ SubscriptionCheck(r)
    \/ PrimaryCall(r)
    \/ FallbackCall(r)
    \/ TrackRead(r)
    \/ TrackCommit(r)
    \/ VerifyCommit(r)
    \/ FallbackTrackRead(r)
    \/ FallbackTrackCommit(r)

InitLive ==
    /\ env_provider = ""
    /\ api_keys \in {{}, {"google", "openrouter"}}
    /\ user_plan = [u \in Users |-> "pro"]
    /\ pricing_raises = FALSE
    /\ monitor = IdleMonitor
    /\ checker = IdleChecker
    /\ usage_summaries = [u \in Users |-> ZeroRow]
    /\ req = [r \in Requests |-> IdleRequest]

SpecLive ==
    /\ InitLive
    /\ [][Next]_vars
    /\ \A r \in Requests : WF_vars(RequestStep(r))

(***************************************************************************)
(* The same program for a user whose plan has no token ceiling.            *)
(***************************************************************************)
InitUnlimited ==
    /\ env_provider \in EnvValues
    /\ api_keys \in SUBSET Supported
    /\ user_plan = [u \in Users |-> "enterprise"]
    /\ pricing_raises = FALSE
    /\ monitor = IdleMonitor
    /\ checker = IdleChecker
    /\ usage_summaries \in [Users -> InitRows]
    /\ req = [r \in Requests |-> IdleRequest]

SpecUnlimited == InitUnlimited /\ [][Next]_vars

TypeOK ==
    /\ env_provider \in OverrideValues
    /\ api_keys \subseteq Supported
    /\ \A r \in Requests : req[r].invocations \in 0 .. 2

(***************************************************************************)
(* Properties.                                                             *)
(***************************************************************************)
\* The spellings of GPT_PROVIDER that name provider p (lines 52-59).
OverrideNames(p) ==
    CASE p = "google" -> {"gemini", "google"}
      [] p = "huggingface" -> {"hf_response_api", "huggingface", "hf"}
      [] p = "openrouter" -> {"openrouter", "or"}
      [] OTHER -> {}

\* The priority of the providers: google, then openrouter, then huggingface
\* (the order of the tests of lines 84-91 and 100-108).
PriorityOrder == <<"google", "openrouter", "huggingface">>

\* p is the first provider of the priority order that is in avail.
FirstByPriority(p, avail) ==
    \E i \in 1 .. Len(PriorityOrder) :
        /\ PriorityOrder[i] = p
        /\ p \in avail
        /\ \A j \in 1 .. (i - 1) : PriorityOrder[j] \notin avail

Selected(r) == req[r].pc # "idle" /\ api_keys # {}

\* Some provider other than the primary of request r has credentials.
AlternateExists(r) == api_keys \ {req[r].gpt_provider} # {}

CommitStep(r) ==
    /\ req[r].pc \in {"commit", "fb_commit"}
    /\ ~req[r].committed
    /\ req'[r].committed

\* The requests that have opened a tracking session.
LedgerUsers == {o \in Requests : req[o].ledger_attempts > 0}

\* The tracking session of request r read the call counter of its provider
\* before another request committed its record for the same user and
\* provider.
ReadBeforeOtherCommit(r) ==
    \E o \in Requests \ {r} :
        /\ req[o].committed
        /\ req[o].user_id = req[r].user_id
        /\ req[o].ledger_enum = req[r].provider_enum
        /\ req[r].snap.calls[req[r].provider_enum]
               < Row(r).calls[req[r].provider_enum]

\* The record of request r clamps the token counter of its provider.
RecordIsCapped(r) ==
    /\ TracksTokens(PathOf(r), req[r].provider_enum)
    /\ Capped(TokenLimit(req[r].user_id, req[r].provider_enum),
              req[r].snap.tokens[req[r].provider_enum],
              TokensTotal(req[r].prompt, req[r].response_text))

\* C1: in every reachable state the stored {provider}_tokens of every row is
\* at most the provider's token ceiling, when the ceiling is > 0.
C1_TokensWithinCeiling ==
    \A u \in Users, e \in Enums :
        TokenLimit(u, e) > 0 => usage_summaries[u].tokens[e] <= TokenLimit(u, e)

\* A primary-path record that was capped is committed while a fallback-path
\* record of a long response has left its counter at the ceiling.
C1_Witness ==
    \E r1, r2 \in Requests :
        /\ req[r1].pc = "verify"
        /\ Capped(TokenLimit(req[r1].user_id, req[r1].provider_enum),
                  req[r1].snap.tokens[req[r1].provider_enum],
                  TokensTotal(req[r1].prompt, req[r1].response_text))
        /\ req[r2].pc = "done" /\ req[r2].committed
        /\ req[r2].fallback_provider # ""
        /\ req[r2].returned = 3100
        /\ Row(r2).tokens[req[r2].ledger_enum]
               = TokenLimit(req[r2].user_id, req[r2].ledger_enum)
        /\ TokenLimit(req[r2].user_id, req[r2].ledger_enum) > 0

\* C2: a request whose worst-case estimate exceeds the remaining token
\* allowance of the selected provider is denied and invokes no provider.
C2_OverQuotaDeniedBeforeCall ==
    \A r \in Requests :
        req[r].over_quota =>
            /\ req[r].pc = "done"
            /\ req[r].outcome = "denied"
            /\ req[r].invocations = 0

C2_Witness ==
    \E r \in Requests :
        /\ req[r].over_quota /\ req[r].outcome = "denied"
        /\ Row(r).exists
        /\ \E o \in Requests : req[o].invocations > 0

\* C3: the step that denies a request leaves every row of the ledger, and
\* the existence of the rows, as it was.
C3_DenialLeavesLedger ==
    [][\A r \in Requests :
          (req[r].pc = "check" /\ req'[r].outcome = "denied")
              => usage_summaries' = usage_summaries]_vars

\* Ceiling 1000, no prior usage, worst case above 1000: denied, still no row.
C3_Witness ==
    \E r \in Requests :
        /\ req[r].outcome = "denied"
        /\ TokenLimit(req[r].user_id, req[r].provider_enum) = 1000
        /\ EstimatedTotalTokens(req[r].prompt) > 1000
        /\ Row(r) = ZeroRow

\* C4: the record of a request served by the fallback changes no calls,
\* tokens or cost counter of the primary provider (nor of any provider other
\* than the fallback).
C4_FallbackAttribution ==
    [][\A r \in Requests :
          (CommitStep(r) /\ req[r].pc = "fb_commit") =>
              \A e \in Enums \ {ProviderEnum(req[r].fallback_provider)} :
                  /\ usage_summaries'[req[r].user_id].calls[e] = Row(r).calls[e]
                  /\ usage_summaries'[req[r].user_id].tokens[e] = Row(r).tokens[e]
                  /\ usage_summaries'[req[r].user_id].cost[e] = Row(r).cost[e]]_vars

C4_Witness ==
    \E r \in Requests :
        /\ req[r].pc = "done" /\ req[r].primary_failed /\ req[r].committed
        /\ req[r].outcome = "result"
        /\ Row(r).calls[ProviderEnum(req[r].fallback_provider)] > 0
        /\ Row(r).calls[ProviderEnum(req[r].gpt_provider)] = 0

\* C5: when the primary call fails and there is no alternate, or the
\* alternate fails too, the request ends with the all-providers-failed error
\* and has made no ledger attempt and no commit.
C5_AllProvidersFailed ==
    \A r \in Requests :
        (/\ req[r].primary_failed
         /\ (req[r].fallback_provider = "" \/ req[r].fallback_failed))
            => /\ req[r].pc = "done"
               /\ req[r].outcome = "all_failed"
               /\ req[r].ledger_attempts = 0
               /\ ~req[r].committed

C5_Witness ==
    \E r1, r2 \in Requests :
        /\ req[r1].outcome = "all_failed" /\ req[r1].fallback_failed
        /\ req[r1].invocations = 2
        /\ req[r2].committed /\ req[r2].user_id = req[r1].user_id

\* C6: no request invokes provider backends more than twice.
C6_AtMostTwoInvocations ==
    \A r \in Requests : req[r].invocations <= 2

C6_Witness ==
    \E r \in Requests :
        /\ req[r].invocations = 2
        /\ Cardinality(api_keys) = 3

\* C7: a request whose provider returned a response ends by returning
\* exactly that response, whatever happened to the ledger update.
C7_LedgerFaultNeverSurfaces ==
    \A r \in Requests :
        (req[r].pc = "done" /\ req[r].response_text # NoResponse)
            => /\ req[r].outcome = "result"
               /\ req[r].returned = req[r].response_text

C7_Witness ==
    \E r1, r2 \in Requests :
        /\ req[r1].pc = "done" /\ req[r1].ledger_fault = "track_error"
        /\ req[r1].outcome = "result" /\ req[r1].returned > 0
        /\ req[r2].pc = "done" /\ req[r2].ledger_fault = "usage_error"
        /\ req[r2].outcome = "result" /\ req[r2].returned > 0
        /\ req[r2].fallback_provider # ""

\* C8 as claimed: every request that returns a result, whatever the response
\* content, has attempted exactly one ledger record for the provider that
\* produced the result.
C8_Original ==
    \A r \in Requests :
        req[r].outcome = "result" =>
            /\ req[r].ledger_attempts = 1
            /\ req[r].ledger_enum = ProviderEnum(req[r].producer)

\* C8 amended: every request that returns a non-empty result has attempted
\* exactly one ledger record for the provider that produced the result; a
\* request that returns an empty response has attempted none.
C8_Amended ==
    \A r \in Requests :
        req[r].outcome = "result" =>
            IF req[r].returned # 0
            THEN /\ req[r].ledger_attempts = 1
                 /\ req[r].ledger_enum = ProviderEnum(req[r].producer)
            ELSE req[r].ledger_attempts = 0

C8_Witness ==
    \E r1, r2 \in Requests :
        /\ req[r1].outcome = "result" /\ req[r1].returned > 0
        /\ req[r1].producer = req[r1].fallback_provider
        /\ req[r1].ledger_attempts = 1
        /\ req[r2].outcome = "result" /\ req[r2].returned = 0

\* C9 as claimed: a recorded call with prior stored tokens old, actual total
\* a and ceiling c > 0 leaves the provider's token counter at min(c, old + a).
C9_Original ==
    [][\A r \in Requests :
          (CommitStep(r)
           /\ TokenLimit(req[r].user_id, req[r].provider_enum) > 0) =>
              usage_summaries'[req[r].user_id].tokens[req[r].provider_enum]
                  = Min(TokenLimit(req[r].user_id, req[r].provider_enum),
                        req[r].snap.tokens[req[r].provider_enum]
                            + TokensTotal(req[r].prompt, req[r].response_text))]_vars

\* C10 as claimed: the first recorded call of a (user, period) without a row
\* leaves the row with the provider's calls = 1, total_calls = 1 and the
\* provider's tokens and total_tokens equal to the call's actual token total.
C10_Original ==
    [][\A r \in Requests :
          (CommitStep(r) /\ ~req[r].snap.exists) =>
              LET row == usage_summaries'[req[r].user_id]
                  e == req[r].provider_enum
                  a == TokensTotal(req[r].prompt, req[r].response_text)
              IN  /\ row.exists
                  /\ row.calls[e] = 1 /\ row.total_calls = 1
                  /\ row.tokens[e] = a /\ row.total_tokens = a]_vars
C12_Original ==
    [][\A u \in Users :
          /\ \A e \in Enums :
                /\ usage_summaries'[u].calls[e] >= usage_summaries[u].calls[e]
                /\ usage_summaries'[u].tokens[e] >= usage_summaries[u].tokens[e]
                /\ usage_summaries'[u].cost[e] >= usage_summaries[u].cost[e]
          /\ usage_summaries'[u].total_calls >= usage_summaries[u].total_calls
          /\ usage_summaries'[u].total_tokens >= usage_summaries[u].total_tokens
          /\ usage_summaries'[u].total_cost >= usage_summaries[u].total_cost]_vars
\* C13: when no provider has credentials, every request that has started has
\* failed with the no-API-keys configuration error, without a quota check,
\* a ledger access or a provider invocation, whether or not GPT_PROVIDER is
\* set.
C13_NoCredentialsFailsFirst ==
    api_keys = {} =>
        /\ \A u \in Users : usage_summaries[u] = ZeroRow
        /\ \A r \in Requests :
              req[r].pc # "idle" =>
                  /\ req[r].pc = "done"
                  /\ req[r].outcome = "no_api_keys"
                  /\ req[r].quota_checks = 0
                  /\ req[r].ledger_attempts = 0
                  /\ req[r].invocations = 0
                  /\ ~req[r].committed

C13_Witness ==
    /\ api_keys = {}
    /\ env_provider = "or"
    /\ \E r1, r2 \in Requests :
        /\ req[r1].outcome = "no_api_keys" /\ req[r1].user_id # NoUser
        /\ req[r2].outcome = "no_api_keys" /\ req[r2].user_id = NoUser
\* C14: a request without a user identity ends with a configuration error
\* (the user_id error, or the no-API-keys error raised before it), never a
\* quota denial, and performs no quota check, no provider invocation and no
\* ledger update.
C14_NoUserIdIsConfigurationError ==
    \A r \in Requests :
        (req[r].pc # "idle" /\ req[r].user_id = NoUser) =>
            /\ req[r].pc = "done"
            /\ req[r].outcome =
                   (IF api_keys = {} THEN "no_api_keys" ELSE "no_user_id")
            /\ req[r].quota_checks = 0
            /\ req[r].invocations = 0
            /\ req[r].ledger_attempts = 0
            /\ ~req[r].committed

\* A request without user id has failed while the provider it would have
\* used denies a request of a user for quota.
C14_Witness ==
    \E r1, r2 \in Requests :
        /\ req[r1].user_id = NoUser /\ req[r1].outcome = "no_user_id"
        /\ req[r1].gpt_provider # ""
        /\ req[r2].user_id # NoUser /\ req[r2].outcome = "denied"
\* C15: a request selects the provider the override names when that provider
\* has credentials, and with no override the first provider of the order
\* google, openrouter, huggingface that has credentials.
C15_PrimarySelection ==
    \A r \in Requests :
        Selected(r) =>
            /\ \A p \in api_keys :
                  env_provider \in OverrideNames(p) => req[r].gpt_provider = p
            /\ env_provider = "" => FirstByPriority(req[r].gpt_provider, api_keys)

\* All three providers have keys and the override "hf" has made huggingface,
\* the last of the priority order, the provider that was invoked.
C15_Witness ==
    /\ env_provider = "hf"
    /\ api_keys = Supported
    /\ \E r \in Requests :
        /\ req[r].gpt_provider = "huggingface"
        /\ req[r].producer = "huggingface"
        /\ req[r].outcome = "result"

\* C16: when the override names a provider without credentials (or no
\* supported provider at all) and some provider has credentials, the request
\* does not fail at selection and selects what the priority order selects
\* from the same credentials.
C16_OverrideWithoutCredentials ==
    \A r \in Requests :
        (/\ Selected(r)
         /\ env_provider # ""
         /\ \A p \in api_keys : env_provider \notin OverrideNames(p)) =>
            /\ req[r].outcome # "no_api_keys"
            /\ FirstByPriority(req[r].gpt_provider, api_keys)

\* The override names google, only openrouter and huggingface have keys:
\* openrouter was selected and has answered.
C16_Witness ==
    /\ env_provider = "gemini"
    /\ api_keys = {"openrouter", "huggingface"}
    /\ \E r \in Requests :
        /\ req[r].gpt_provider = "openrouter"
        /\ req[r].producer = "openrouter"
        /\ req[r].outcome = "result"
C18_FallbackExactlyOnce ==
    \A r \in Requests :
        /\ req[r].fallback_invocations <= 1
        /\ req[r].fallback_invocations = 1 =>
              /\ req[r].primary_failed /\ AlternateExists(r)
              /\ req[r].invocations = 2
        /\ (req[r].primary_failed /\ AlternateExists(r)) =>
              IF req[r].pc = "fb_call"
              THEN req[r].fallback_invocations = 0 /\ req[r].invocations = 1
              ELSE req[r].fallback_invocations = 1
        /\ ~req[r].primary_failed =>
              /\ req[r].fallback_invocations = 0
              /\ req[r].pc \notin {"fb_call", "fb_track", "fb_commit"}

\* With alternates available one request was served by its fallback while
\* another got an empty response from its primary and returned it, and a
\* request without alternate would have failed at once.
C18_Witness ==
    \E r1, r2 \in Requests :
        /\ req[r1].fallback_invocations = 1 /\ req[r1].outcome = "result"
        /\ req[r2].pc = "done" /\ req[r2].returned = 0
        /\ req[r2].invocations = 1 /\ ~req[r2].primary_failed
        /\ AlternateExists(r2)
\* C19: the fallback provider of a request is the first provider of the
\* order google, openrouter, huggingface that has credentials and is not the
\* provider that failed, and it is the provider the fallback call invokes.
C19_FallbackChoice ==
    \A r \in Requests :
        req[r].fallback_provider # "" =>
            /\ req[r].fallback_provider # req[r].gpt_provider
            /\ req[r].fallback_provider \in api_keys
            /\ FirstByPriority(req[r].fallback_provider,
                               api_keys \ {req[r].gpt_provider})
            /\ (req[r].fallback_invocations = 1 /\ ~req[r].fallback_failed) =>
                   req[r].producer = req[r].fallback_provider

\* All three providers have keys; google, the head of the order, failed and
\* openrouter, not huggingface, answered.
C19_Witness ==
    /\ api_keys = Supported
    /\ \E r \in Requests :
        /\ req[r].gpt_provider = "google"
        /\ req[r].fallback_provider = "openrouter"
        /\ req[r].producer = "openrouter"
        /\ req[r].outcome = "result"
\* C20 as claimed: the worst-case total checked at admission is the input
\* estimate plus the larger of the configured maximum output tokens and 1.5
\* times the input estimate, for every prompt length.
C20_Original ==
    \A r \in Requests :
        req[r].quota_checks > 0 =>
            req[r].estimated_total_tokens
                = EstimateTokens(req[r].prompt)
                  + Max(max_tokens, (EstimateTokens(req[r].prompt) * 15) \div 10)

\* C20 amended: the worst-case total checked at admission is the input
\* estimate plus the configured maximum output tokens (4000), for every
\* prompt length, also when 1.5 times the input estimate is larger.
C20_Amended ==
    \A r \in Requests :
        req[r].quota_checks > 0 =>
            req[r].estimated_total_tokens
                = EstimateTokens(req[r].prompt) + max_tokens

\* A prompt of 2100 words (input estimate 2730, 1.5 times that is 4095) was
\* admitted with a worst case of 6730 and a provider was invoked.
C20_Witness ==
    \E r \in Requests :
        /\ req[r].quota_checks > 0 /\ req[r].invocations > 0
        /\ (EstimateTokens(req[r].prompt) * 15) \div 10 > max_tokens
        /\ req[r].estimated_total_tokens = 6730
\* C21 as claimed: a record that clamps the provider's token counter at the
\* ceiling still adds the call's actual token total to total_tokens, and 1 to
\* total_calls.
C21_Original ==
    [][\A r \in Requests :
          (CommitStep(r) /\ RecordIsCapped(r)) =>
              /\ usage_summaries'[req[r].user_id].total_calls
                     = req[r].snap.total_calls + 1
              /\ usage_summaries'[req[r].user_id].total_tokens
                     = req[r].snap.total_tokens
                       + TokensTotal(req[r].prompt, req[r].response_text)]_vars

\* C21 amended: a record that clamps the provider's token counter at the
\* ceiling adds to total_tokens only what was left below the ceiling (the
\* ceiling minus the counter it read, at least 0), and 1 to total_calls.
C21_Amended ==
    [][\A r \in Requests :
          (CommitStep(r) /\ RecordIsCapped(r)) =>
              /\ usage_summaries'[req[r].user_id].total_calls
                     = req[r].snap.total_calls + 1
              /\ usage_summaries'[req[r].user_id].total_tokens
                     = req[r].snap.total_tokens
                       + Max(TokenLimit(req[r].user_id, req[r].provider_enum)
                             - req[r].snap.tokens[req[r].provider_enum], 0)]_vars

\* A clamped record of the primary path has just been committed: the row's
\* total_tokens grew by less than the call's actual total.
C21_Witness ==
    \E r \in Requests :
        /\ req[r].pc = "verify" /\ req[r].committed /\ RecordIsCapped(r)
        /\ Row(r).total_tokens
               < req[r].snap.total_tokens
                 + TokensTotal(req[r].prompt, req[r].response_text)
        /\ Row(r).total_tokens > req[r].snap.total_tokens
\* C22 as claimed: after every ledger commit, on the primary and on the
\* fallback path, the row is read back and compared before the request
\* returns; on a mismatch one more commit is attempted, never more than one,
\* and the mismatch is reported as a non-fatal ledger fault.
C22_Original ==
    \A r \in Requests :
        (req[r].pc = "done" /\ req[r].committed) =>
            /\ req[r].verify_reads >= 1
            /\ req[r].recommits <= 1
            /\ req[r].ledger_fault = "verify_mismatch" => req[r].recommits = 1
            /\ req[r].outcome = "result"
\* C23: with two requests recording calls of one user, a commit leaves the
\* provider's call counter one above the committed value when its session
\* read the counter after the other request's commit (c+1, then c+2), and
\* at the committed value when it read the counter before that commit (both
\* read c, the counter ends at c+1: one increment lost); it never lowers it.
C23_ConcurrentCalls ==
    [][\A r \in Requests :
          (CommitStep(r) /\ Cardinality(LedgerUsers) <= 2) =>
              LET e == req[r].provider_enum
                  before == Row(r).calls[e]
                  after == usage_summaries'[req[r].user_id].calls[e]
              IN  /\ after >= before
                  /\ after = req[r].snap.calls[e] + 1
                  /\ IF ReadBeforeOtherCommit(r)
                     THEN after = before
                     ELSE after = before + 1]_vars

\* Two requests on the same provider both read call counter 1 and both
\* committed: the counter is 2, one increment lost.
C23_Witness ==
    \E r1, r2 \in Requests, e \in Enums :
        /\ r1 # r2
        /\ req[r1].committed /\ req[r2].committed
        /\ req[r1].ledger_enum = e /\ req[r2].ledger_enum = e
        /\ req[r1].user_id = req[r2].user_id
        /\ Row(r1).calls[e] = 2
        /\ \E e2 \in Enums \ {e} : Row(r1).calls[e2] = 1
C25_Original ==
    [][\A r \in Requests :
          (CommitStep(r) /\ TokenLimit(req[r].user_id, req[r].provider_enum) = 0) =>
              LET e == req[r].provider_enum
                  row == usage_summaries'[req[r].user_id]
                  tokens_input == EstimateTokens(req[r].prompt)
                  tokens_output == EstimateTokens(req[r].response_text)
              IN  /\ row.tokens[e] = req[r].snap.tokens[e] + tokens_input + tokens_output
                  /\ row.total_tokens
                         = req[r].snap.total_tokens + tokens_input + tokens_output
                  /\ row.cost[e] = req[r].snap.cost[e]
                         + CalculateApiCost(tokens_input, tokens_output)]_vars
\* C26: the input estimate of the accounting step, on the primary and on the
\* fallback path, is the input estimate of the pre-flight check of the same
\* request: the floor of 1.3 times the number of words of the prompt.
C26_SameInputEstimate ==
    \A r \in Requests :
        (req[r].pc \in {"commit", "fb_commit", "verify"} \/ req[r].committed) =>
            /\ req[r].tokens_input = req[r].input_tokens
            /\ 10 * req[r].input_tokens <= 13 * req[r].prompt
            /\ 13 * req[r].prompt < 10 * (req[r].input_tokens + 1)

C26_Witness ==
    /\ \E r \in Requests :
          /\ req[r].committed /\ req[r].fallback_invocations = 0
          /\ req[r].prompt = 3007 /\ req[r].tokens_input = 3909
    /\ \E r \in Requests :
          /\ req[r].committed /\ req[r].fallback_invocations = 1
          /\ req[r].prompt = 2100 /\ req[r].tokens_input = 2730
\* The tracked total of the record request r is about to commit.
TrackedTotalOf(r) ==
    LET e == req[r].provider_enum IN
    TrackedTotal(PathOf(r), e, TokenLimit(req[r].user_id, e),
                 req[r].snap.tokens[e],
                 TokensTotal(req[r].prompt, req[r].response_text))

\* C27: in every committed record the tracked total t is split into
\* tracked_input = min(input estimate, t) and tracked_output = t - tracked_input,
\* both parts are >= 0 and add up to t, and the cost of the split is added to
\* the cost of the provider and to total_cost.
C27_SplitAndCost ==
    [][\A r \in Requests :
          CommitStep(r) =>
              LET e == req[r].provider_enum
                  i == req[r].tokens_input
                  t == TrackedTotalOf(r)
                  tracked_input == TrackedInput(i, t)
                  tracked_output == TrackedOutput(i, t)
                  cost_total == CalculateApiCost(tracked_input, tracked_output)
                  old == usage_summaries[req[r].user_id]
                  new == usage_summaries'[req[r].user_id]
              IN  /\ i >= 0 /\ t >= 0
                  /\ tracked_input = IF i <= t THEN i ELSE t
                  /\ tracked_output = t - tracked_input
                  /\ tracked_input >= 0 /\ tracked_output >= 0
                  /\ tracked_input + tracked_output = t
                  /\ cost_total > 0 =>
                        /\ new.cost[e] = req[r].snap.cost[e] + cost_total
                        /\ new.total_cost = req[r].snap.total_cost + cost_total
                  /\ cost_total = 0 =>
                        /\ new.cost[e] = old.cost[e]
                        /\ new.total_cost = old.total_cost]_vars

\* One record was committed whose tracked total is at least the input
\* estimate and whose cost was added, and another whose tracked total (after
\* the clamp) is below the input estimate.
C27_Witness ==
    /\ \E r \in Requests :
          /\ req[r].pc = "verify" /\ req[r].committed
          /\ TrackedTotalOf(r) > req[r].tokens_input
          /\ Row(r).cost[req[r].provider_enum]
                 = req[r].snap.cost[req[r].provider_enum]
                     + CalculateApiCost(req[r].tokens_input,
                                        TrackedTotalOf(r) - req[r].tokens_input)
    /\ \E r \in Requests :
          /\ req[r].pc = "verify" /\ req[r].committed
          /\ TrackedTotalOf(r) < req[r].tokens_input
\* C28: one invocation of the openrouter functions makes at most 6 attempts,
\* stops at the first attempt that succeeds and returns its result, and
\* raises one failure to the dispatcher only after 6 consecutive failed
\* attempts, whatever the exceptions of the attempts were.
C28_BoundedRetry ==
    \A r \in Requests :
        /\ req[r].attempt_number \in 0 .. 6
        /\ req[r].openrouter_result = "none" =>
              req[r].failed_attempts = req[r].attempt_number
        /\ req[r].openrouter_result = "returned" =>
              /\ req[r].attempt_number >= 1
              /\ req[r].failed_attempts = req[r].attempt_number - 1
              /\ req[r].producer = "openrouter"
              /\ req[r].response_text \in OpenRouterResponseWords
              /\ req[r].pc \notin {"call", "fb_call"}
        /\ req[r].openrouter_result = "raised" =>
              /\ req[r].attempt_number = 6
              /\ req[r].failed_attempts = 6
              /\ req[r].producer # "openrouter"
              /\ IF req[r].gpt_provider = "openrouter"
                 THEN /\ req[r].primary_failed
                      /\ req[r].pc # "call"
                      /\ req[r].invocations = 1 + req[r].fallback_invocations
                 ELSE /\ req[r].fallback_failed
                      /\ req[r].pc = "done"
                      /\ req[r].fallback_invocations = 1
                      /\ req[r].invocations = 2

\* One invocation returned at its third attempt after a missing key and an
\* unparsable JSON answer; another raised after six failed attempts, the
\* last one an empty response.
C28_Witness ==
    /\ \E r \in Requests :
          /\ req[r].openrouter_result = "returned" /\ req[r].attempt_number = 3
          /\ req[r].json_struct /\ req[r].last_failure = "bad_json"
    /\ \E r \in Requests :
          /\ req[r].openrouter_result = "raised" /\ req[r].failed_attempts = 6
          /\ req[r].last_failure = "empty_response"
\* C29 as claimed: every provider a request has invoked, the fallback
\* provider included, was admitted by the quota check of that request for
\* its own provider before it was called.
C29_Original ==
    \A r \in Requests :
        /\ req[r].invocations >= 1 =>
              ProviderEnum(req[r].gpt_provider) \in req[r].admitted
        /\ req[r].fallback_invocations >= 1 =>
              ProviderEnum(req[r].fallback_provider) \in req[r].admitted
\* C30 as claimed: for the same prior row, provider, prompt, response, ceiling
\* and cost, the updates of the primary path and those of the fallback path
\* leave the same stored calls, tokens, cost, total_calls and total_tokens.
C30_Original ==
    \A r \in Requests :
        req[r].pc \in {"commit", "fb_commit"} =>
            ApplyRecord(Row(r), req[r].snap, "primary", req[r].user_id,
                        req[r].provider_enum, req[r].prompt,
                        req[r].response_text, FALSE)
              = ApplyRecord(Row(r), req[r].snap, "fallback", req[r].user_id,
                            req[r].provider_enum, req[r].prompt,
                            req[r].response_text, FALSE)
\* C31 as claimed: the stored call counter of a provider never exceeds the
\* call ceiling of the provider (when the ceiling is > 0), also when several
\* requests were admitted against the same committed counter value.
C31_Original ==
    \A u \in Users : \A e \in Enums :
        CallLimit(u, e) > 0 => usage_summaries[u].calls[e] <= CallLimit(u, e)
\* Some request other than r has committed a record that stored the token
\* counter of the provider of r, for the user of r, at its ceiling.
CeilingCommitted(r) ==
    \E o \in DOMAIN req \ {r} :
        /\ req[o].committed /\ req[o].stored_at_ceiling
        /\ req[o].user_id = req[r].user_id
        /\ req[o].ledger_enum = req[r].provider_enum

\* C32 as claimed: once the token counter of a provider has been committed
\* at its ceiling, every request of that user for that provider whose
\* admission check starts after that commit is denied and invokes no
\* provider.
C32_Original ==
    [][\A r \in DOMAIN req :
          (/\ req[r].pc = "check" /\ req'[r].pc # "check"
           /\ CeilingCommitted(r)) =>
              /\ req'[r].pc = "done"
              /\ req'[r].outcome \in {"denied", "subscription_check_failed"}
              /\ req'[r].invocations = 0]_vars
\* C33: a request whose quota check itself failed (an error, not a denial)
\* ends with an error, has invoked no provider, has opened no tracking
\* session and has written nothing to the ledger.
C33_CheckFailureFailsClosed ==
    \A r \in Requests :
        req[r].outcome = "subscription_check_failed" =>
            /\ req[r].pc = "done"
            /\ req[r].error = "RuntimeError"
            /\ req[r].returned = NoResponse
            /\ req[r].invocations = 0 /\ req[r].fallback_invocations = 0
            /\ req[r].ledger_attempts = 0 /\ ~req[r].committed

\* The check of one request failed while the row of its user was untouched.
C33_Witness ==
    \E r \in Requests :
        /\ req[r].outcome = "subscription_check_failed"
        /\ req[r].user_id \in Users
        /\ usage_summaries[req[r].user_id] = ZeroRow
        /\ \A o \in Requests \ {r} : req[o].pc = "idle"
\* C34: every provider a request invokes, as primary or as fallback, and the
\* provider that produced its result, had credentials when the request
\* started, whatever the value of GPT_PROVIDER and the set of credentials.
C34_InvokedHaveCredentials ==
    \A r \in Requests :
        /\ (req[r].pc = "call" \/ req[r].invocations >= 1) =>
              req[r].gpt_provider \in api_keys
        /\ (req[r].pc = "fb_call" \/ req[r].fallback_invocations >= 1) =>
              req[r].fallback_provider \in api_keys
        /\ req[r].producer # "" => req[r].producer \in api_keys

\* GPT_PROVIDER names google, which has no credentials; openrouter was
\* invoked as primary and failed, huggingface was invoked as fallback.
C34_Witness ==
    /\ env_provider \in OverrideNames("google")
    /\ api_keys = {"openrouter", "huggingface"}
    /\ \E r \in Requests :
          /\ req[r].gpt_provider = "openrouter" /\ req[r].primary_failed
          /\ req[r].fallback_provider = "huggingface"
          /\ req[r].fallback_invocations = 1
          /\ req[r].producer = "huggingface"
\* The sum of the per-provider call counters of a row.
SumCalls(row) == row.calls["gemini"] + row.calls["mistral"] + row.calls["openrouter"]

\* No request is in progress and no ledger update has failed.
QuietLedger ==
    \A r \in Requests :
        req[r].pc \in {"idle", "done"} /\ req[r].ledger_fault = "none"

\* The requests of user u that have returned a result.
Successful(u) ==
    {r \in Requests : req[r].outcome = "result" /\ req[r].user_id = u}

\* The requests of user u that have returned a non-empty result.
SuccessfulNonEmpty(u) == {r \in Successful(u) : req[r].returned # 0}

\* C35 as claimed: with requests served one at a time and no failed ledger
\* update, after n successful requests of a user starting from no row,
\* total_calls = n = the sum of the per-provider call counters, and the call
\* counter of each provider is the number of results it produced.
C35_Original ==
    QuietLedger =>
        \A u \in Users :
            /\ usage_summaries[u].total_calls = Cardinality(Successful(u))
            /\ SumCalls(usage_summaries[u]) = Cardinality(Successful(u))
            /\ \A e \in Enums :
                  usage_summaries[u].calls[e] =
                      Cardinality({r \in Successful(u) :
                                      ProviderEnum(req[r].producer) = e})

\* C35 amended: the same, counting the requests that returned a non-empty
\* result; an empty result is returned without a ledger record.
C35_Amended ==
    QuietLedger =>
        \A u \in Users :
            /\ usage_summaries[u].total_calls = Cardinality(SuccessfulNonEmpty(u))
            /\ SumCalls(usage_summaries[u]) = Cardinality(SuccessfulNonEmpty(u))
            /\ \A e \in Enums :
                  usage_summaries[u].calls[e] =
                      Cardinality({r \in SuccessfulNonEmpty(u) :
                                      ProviderEnum(req[r].producer) = e})

\* Two requests were served one after the other, the first by the primary
\* provider and the second by the fallback provider, and both are recorded.
C35_Witness ==
    /\ QuietLedger
    /\ \E u \in Users :
          /\ Cardinality(SuccessfulNonEmpty(u)) = 2
          /\ usage_summaries[u].total_calls = 2
          /\ usage_summaries[u].calls["gemini"] = 1
          /\ usage_summaries[u].calls["openrouter"] = 1
\* C36: when the cost calculation of a record fails or returns 0, the record
\* is still committed with its call counter, its token counter and the
\* totals updated, and the cost of every provider and total_cost are left as
\* they were.
C36_CostFailureKeepsCounters ==
    [][\A r \in Requests :
          (/\ CommitStep(r)
           /\ \/ req'[r].cost_failed
              \/ CostTotal(req[r].tokens_input, TrackedTotalOf(r), FALSE) = 0) =>
              LET e == req[r].provider_enum
                  snap == req[r].snap
                  old == usage_summaries[req[r].user_id]
                  new == usage_summaries'[req[r].user_id]
              IN  /\ new.exists
                  /\ new.calls[e] = snap.calls[e] + 1
                  /\ new.total_calls = snap.total_calls + 1
                  /\ new.total_tokens = snap.total_tokens + TrackedTotalOf(r)
                  /\ TracksTokens(PathOf(r), e) =>
                        new.tokens[e] = Min(snap.tokens[e] + TokensTotal(req[r].prompt,
                                                             req[r].response_text),
                                            IF TokenLimit(req[r].user_id, e) > 0
                                            THEN TokenLimit(req[r].user_id, e)
                                            ELSE snap.tokens[e] + TokensTotal(req[r].prompt,
                                                             req[r].response_text))
                  /\ new.cost = old.cost
                  /\ new.total_cost = old.total_cost]_vars

\* The cost calculation of a committed record failed; one where it returned 0.
C36_Witness ==
    /\ \E r \in Requests :
          /\ req[r].pc = "verify" /\ req[r].committed /\ req[r].cost_failed
          /\ Row(r).calls[req[r].provider_enum]
                 > req[r].snap.calls[req[r].provider_enum]
          /\ Row(r).total_cost = req[r].snap.total_cost
    /\ \E r \in Requests :
          /\ req[r].pc = "verify" /\ req[r].committed /\ ~req[r].cost_failed
          /\ TrackedTotalOf(r) = 0
\* The ways a request can end (the RuntimeError of lines 107-110, 130 and
\* 134 is the configuration error).
Outcomes ==
    {"result", "denied", "no_api_keys", "no_user_id",
     "subscription_check_failed", "all_failed"}

\* Request r has ended in exactly one way: with a returned result and no
\* error, or with one error and no result.
EndedOnce(r) ==
    /\ req[r].pc = "done"
    /\ req[r].outcome \in Outcomes
    /\ req[r].outcome = "result" <=> req[r].error = "none"
    /\ req[r].outcome = "result" <=> req[r].returned # NoResponse
    /\ req[r].outcome = "denied" <=> req[r].error = "HTTPException429"

\* C37: when every provider invocation and every storage operation
\* terminates, every request that has started ends, in exactly one of:
\* result returned, quota denial, configuration error, subscription-check
\* failure, all providers failed; and it takes a bounded number of steps (one
\* quota check, at most two provider invocations, at most one ledger record).
C37_Terminates ==
    /\ [](\A r \in Requests :
            /\ req[r].pc = "done" => EndedOnce(r)
            /\ req[r].quota_checks <= 1
            /\ req[r].invocations <= 2
            /\ req[r].fallback_invocations <= 1
            /\ req[r].ledger_attempts <= 1)
    /\ \A r \in Requests : (req[r].pc # "idle") ~> EndedOnce(r)

\* One request has ended with all providers failed and another with a
\* returned result that was recorded.
C37_Witness ==
    /\ \E r \in Requests : req[r].pc = "done" /\ req[r].outcome = "all_failed"
    /\ \E r \in Requests :
          req[r].pc = "done" /\ req[r].outcome = "result" /\ req[r].committed

(***************************************************************************)
(* scripts/monitor_resources.py: ResourceMonitor.                          *)
(* The memory figures psutil reports are inputs; a report keeps the two    *)
(* figures the alerts depend on, the alerts and the status.                *)
(***************************************************************************)
MaxReports == 4

ThresholdValues == {alert_threshold_mb, 7000}

UsedMbValues == {6000, 6144, 6145, 7500}

PercentValues == {50, 90, 91}

MemoryInfos == [used_mb : UsedMbValues, percent : PercentValues]

\* max_iterations: <<>> is None, <<n>> is the integer n
MaxIterationsValues == {<<>>} \cup {<<n>> : n \in 0 .. (MaxReports - 1)}

Alert(severity) == [type |-> "memory", severity |-> severity]

\* lines 86-105
check_alerts(memory_info, threshold) ==
    (IF memory_info.used_mb > threshold THEN <<Alert("warning")>> ELSE <<>>)
    \o (IF memory_info.percent > 90 THEN <<Alert("critical")>> ELSE <<>>)

ReportStatusFirstAlert(alerts) ==
    IF alerts = <<>> THEN "ok" ELSE alerts[1].severity

\* lines 122-123
ReportStatus(alerts) ==
    IF \E i \in 1 .. Len(alerts) : alerts[i].severity = "critical"
    THEN "critical"
    ELSE IF alerts # <<>> THEN "warning" ELSE "ok"

\* lines 107-124
get_full_report(memory, threshold) ==
    LET alerts == check_alerts(memory, threshold)
    IN  [used_mb |-> memory.used_mb, percent |-> memory.percent,
         alerts |-> alerts, status |-> ReportStatus(alerts)]

ShouldBreakOnZero(max_iterations, iteration) ==
    max_iterations # <<>> /\ iteration >= max_iterations[1]

\* line 208: if max_iterations and iteration >= max_iterations
ShouldBreak(max_iterations, iteration) ==
    /\ max_iterations # <<>>
    /\ max_iterations[1] # 0
    /\ iteration >= max_iterations[1]

MonitorRunning == monitor.pc \in {"report", "log", "count", "sleep"}

\* main, lines 216-232, with --once
MainOnce ==
    /\ monitor.pc = "idle"
    /\ \E threshold \in ThresholdValues :
         monitor' = [monitor EXCEPT !.pc = "report", !.once = TRUE,
                                    !.threshold = threshold]
    /\ UNCHANGED <<env_provider, api_keys, user_plan, pricing_raises, usage_summaries,
                   req, checker>>

\* monitor_loop, lines 194-200
MonitorLoop ==
    /\ monitor.pc = "idle"
    /\ \E threshold \in ThresholdValues, max_iterations \in MaxIterationsValues :
         monitor' = [monitor EXCEPT !.pc = "report", !.once = FALSE,
                                    !.threshold = threshold,
                                    !.max_iterations = max_iterations,
                                    !.iteration = 0]
    /\ UNCHANGED <<env_provider, api_keys, user_plan, pricing_raises, usage_summaries,
                   req, checker>>

\* lines 203-204 (and 227-228): get_full_report, print_report
GetFullReport ==
    /\ monitor.pc = "report"
    /\ monitor.reports < MaxReports
    /\ \E memory \in MemoryInfos :
         monitor' = [monitor EXCEPT
                        !.pc = "log",
                        !.report = get_full_report(memory, monitor.threshold),
                        !.reports = @ + 1]
    /\ UNCHANGED <<env_provider, api_keys, user_plan, pricing_raises, usage_summaries,
                   req, checker>>

\* lines 186-192: log_report appends one line; a failed write is caught
LogReport ==
    /\ monitor.pc = "log"
    /\ \E write_ok \in BOOLEAN :
         monitor' = [monitor EXCEPT
                        !.pc = IF monitor.once THEN "exited" ELSE "count",
                        !.log_calls = @ + 1,
                        !.written = IF write_ok THEN @ + 1 ELSE @]
    /\ UNCHANGED <<env_provider, api_keys, user_plan, pricing_raises, usage_summaries,
                   req, checker>>

\* lines 207-209
NextIteration ==
    /\ monitor.pc = "count"
    /\ monitor' = [monitor EXCEPT
                      !.iteration = @ + 1,
                      !.pc = IF ShouldBreak(monitor.max_iterations,
                                            monitor.iteration + 1)
                             THEN "returned" ELSE "sleep"]
    /\ UNCHANGED <<env_provider, api_keys, user_plan, pricing_raises, usage_summaries,
                   req, checker>>

\* line 211: time.sleep(interval)
Sleep ==
    /\ monitor.pc = "sleep"
    /\ monitor' = [monitor EXCEPT !.pc = "report", !.sleeps = @ + 1]
    /\ UNCHANGED <<env_provider, api_keys, user_plan, pricing_raises, usage_summaries,
                   req, checker>>

\* lines 212-213 (and 238-239)
KeyboardInterrupt ==
    /\ MonitorRunning
    /\ monitor' = [monitor EXCEPT !.pc = "interrupted"]
    /\ UNCHANGED <<env_provider, api_keys, user_plan, pricing_raises, usage_summaries,
                   req, checker>>

InitMonitor ==
    /\ env_provider = ""
    /\ api_keys = {}
    /\ user_plan = [u \in Users |-> "pro"]
    /\ pricing_raises = FALSE
    /\ monitor = IdleMonitor
    /\ checker = IdleChecker
    /\ usage_summaries = [u \in Users |-> ZeroRow]
    /\ req = [r \in Requests |-> IdleRequest]

NextMonitor ==
    \/ MainOnce
    \/ MonitorLoop
    \/ GetFullReport
    \/ LogReport
    \/ NextIteration
    \/ Sleep
    \/ KeyboardInterrupt

SpecMonitor == InitMonitor /\ [][NextMonitor]_vars

(***************************************************************************)
(* C38: the status of a report is "critical" exactly when the memory       *)
(* percent is above 90, otherwise "warning" exactly when used_mb is above  *)
(* the alert threshold, otherwise "ok"; when both conditions hold the      *)
(* report carries a warning alert and a critical alert and its status is   *)
(* "critical".                                                             *)
(***************************************************************************)
C38_ReportStatus ==
    LET rep == monitor.report
        high == rep.used_mb > monitor.threshold
        crit == rep.percent > 90
    IN  monitor.reports > 0 =>
          /\ (rep.status = "critical") <=> crit
          /\ (rep.status = "warning") <=> (~crit /\ high)
          /\ (rep.status = "ok") <=> (~crit /\ ~high)
          /\ (crit /\ high) =>
                /\ Len(rep.alerts) = 2
                /\ {rep.alerts[i].severity : i \in 1 .. 2} = {"warning", "critical"}

C38_Witness ==
    /\ monitor.reports > 0
    /\ monitor.report.used_mb > monitor.threshold
    /\ monitor.report.percent > 90
    /\ Len(monitor.report.alerts) = 2
    /\ monitor.report.status = "critical"

(***************************************************************************)
(* C39: monitor_loop with max_iterations = n >= 1 returns after exactly n  *)
(* reports, each passed to log_report, and n - 1 sleeps (none after the    *)
(* last report); with max_iterations None or 0 it never returns by itself: *)
(* once started it is running or was stopped by a keyboard interrupt.      *)
(***************************************************************************)
C39_LoopIterations ==
    LET n == monitor.max_iterations
        bounded == n # <<>> /\ n[1] >= 1
    IN  (monitor.pc # "idle" /\ ~monitor.once) =>
          /\ monitor.pc = "returned" =>
                /\ bounded
                /\ monitor.reports = n[1]
                /\ monitor.log_calls = n[1]
                /\ monitor.sleeps = n[1] - 1
          /\ bounded =>
                /\ monitor.reports <= n[1]
                /\ monitor.sleeps < n[1]
                /\ (monitor.iteration = n[1]) => monitor.pc = "returned"
          /\ ~bounded => (MonitorRunning \/ monitor.pc = "interrupted")
          /\ monitor.written <= monitor.log_calls

C39_Witness ==
    /\ ~monitor.once
    /\ monitor.pc = "returned"
    /\ monitor.max_iterations = <<3>>
    /\ monitor.reports = 3
    /\ monitor.log_calls = 3
    /\ monitor.sleeps = 2

(***************************************************************************)
(* scripts/check_system_requirements.py: SystemRequirementsChecker.        *)
(* The interpreter version, the figures of psutil, whether psutil can be   *)
(* imported, the imports that fail and the directories that are missing    *)
(* are inputs.  A check result is the pair <<ok, msg>> with ok one of      *)
(* "True", "False", "None"; a value of the results dict is the sequence of *)
(* the items Python gets when it iterates over it.                         *)
(***************************************************************************)
\* lines 18-23
requirements ==
    [python |-> [min_version |-> <<3, 10>>, recommended |-> <<3, 11>>],
     ram_mb |-> [min |-> 4096, recommended |-> 8192],
     disk_gb |-> [min |-> 20, recommended |-> 50],
     cpu_cores |-> [min |-> 2, recommended |-> 4]]

PythonVersions == {<<3, 9>>, <<3, 10>>, <<3, 11>>}

TotalMbValues == {2048, 4096, 8192}

FreeGbValues == {10, 20, 50}

CoreValues == {1, 2, 4}

\* lines 100-106
critical_deps == <<"fastapi", "uvicorn", "sqlalchemy", "pydantic", "python-dotenv">>

\* lines 120-124
required_dirs == <<"backend", "backend/api", "backend/services">>

\* the imports of check_dependencies that raise ImportError
FailedImports == {{}, {"fastapi"}, {"python-dotenv"}}

MissingDirs == {{}, {"backend/api"}}

\* platform.system() and platform.version(), as the items of the string
platform_system == <<"L", "i", "n", "u", "x">>

platform_version == <<"#", "1">>

\* comparison of two (major, minor) tuples
TupleLess(a, b) == a[1] < b[1] \/ (a[1] = b[1] /\ a[2] < b[2])

CheckOutcome(ok, msg, warnings) ==
    [result |-> <<ok, msg>>, warnings |-> warnings]

\* lines 27-39
check_python_version(version) ==
    IF TupleLess(version, requirements.python.min_version)
    THEN CheckOutcome("False", "below minimum", <<>>)
    ELSE IF TupleLess(version, requirements.python.recommended)
         THEN CheckOutcome("True", "below recommended", <<"python">>)
         ELSE CheckOutcome("True", "ok", <<>>)

\* lines 41-58, 60-77, 79-96: the body shared by check_ram, check_disk, check_cpu
CheckMinimum(psutil_available, value, requirement, key) ==
    IF ~psutil_available
    THEN CheckOutcome("None", "psutil not available", <<>>)
    ELSE IF value < requirement.min
         THEN CheckOutcome("False", "below minimum", <<>>)
         ELSE IF value < requirement.recommended
              THEN CheckOutcome("True", "below recommended", <<key>>)
              ELSE CheckOutcome("True", "ok", <<>>)

check_ram(psutil_available, total_mb) ==
    CheckMinimum(psutil_available, total_mb, requirements.ram_mb, "ram")

check_disk(psutil_available, free_gb) ==
    CheckMinimum(psutil_available, free_gb, requirements.disk_gb, "disk")

check_cpu(psutil_available, cores) ==
    CheckMinimum(psutil_available, cores, requirements.cpu_cores, "cpu")

\* lines 98-116
check_dependencies(failed) ==
    [i \in 1 .. Len(critical_deps) |->
        IF critical_deps[i] \in failed
        THEN <<critical_deps[i], FALSE, "missing">>
        ELSE <<critical_deps[i], TRUE, "installed">>]

\* lines 118-132
check_directories(missing) ==
    [i \in 1 .. Len(required_dirs) |->
        IF required_dirs[i] \in missing
        THEN <<required_dirs[i], FALSE, "missing">>
        ELSE <<required_dirs[i], TRUE, "exists">>]

\* lines 179-182: for key, (ok, msg) in results.items(); a value that does
\* not have exactly two items raises ValueError at the unpacking
RECURSIVE IssueLoop(_, _, _)
IssueLoop(results, i, acc) ==
    IF i > Len(results)
    THEN acc
    ELSE LET key == results[i][1]
             value == results[i][2]
         IN  IF Len(value) # 2
             THEN [acc EXCEPT !.raised = "ValueError"]
             ELSE IF key \in {"python", "ram", "disk", "cpu"} /\ value[1] = "False"
                  THEN IssueLoop(results, i + 1,
                                 [acc EXCEPT !.issues = Append(@, key),
                                             !.all_ok = FALSE])
                  ELSE IssueLoop(results, i + 1, acc)

\* lines 184-187
RECURSIVE DependencyLoop(_, _, _)
DependencyLoop(deps, i, acc) ==
    IF i > Len(deps)
    THEN acc
    ELSE IF ~deps[i][2]
         THEN DependencyLoop(deps, i + 1,
                             [acc EXCEPT !.issues = Append(@, deps[i][1]),
                                         !.all_ok = FALSE])
         ELSE DependencyLoop(deps, i + 1, acc)

\* lines 134-212
run_all_checks(version, psutil_available, total_mb, free_gb, cores, failed, missing) ==
    LET python == check_python_version(version)
        ram == check_ram(psutil_available, total_mb)
        disk == check_disk(psutil_available, free_gb)
        cpu == check_cpu(psutil_available, cores)
        results == << <<"python", python.result>>,
                      <<"ram", ram.result>>,
                      <<"disk", disk.result>>,
                      <<"cpu", cpu.result>>,
                      <<"dependencies", check_dependencies(failed)>>,
                      <<"directories", check_directories(missing)>>,
                      <<"platform", platform_system>>,
                      <<"platform_version", platform_version>> >>
        start == [pc |-> "checked", results |-> results, issues |-> <<>>,
                  warnings |-> python.warnings \o ram.warnings
                               \o disk.warnings \o cpu.warnings,
                  all_ok |-> TRUE, raised |-> "none", exit_status |-> 0]
        looped == IssueLoop(results, 1, start)
    IN  IF looped.raised # "none"
        THEN looped
        ELSE DependencyLoop(results[5][2], 1, looped)

\* main, lines 215-218
RunAllChecks ==
    /\ checker.pc = "idle"
    /\ \E version \in PythonVersions, psutil_available \in BOOLEAN,
          total_mb \in TotalMbValues, free_gb \in FreeGbValues,
          cores \in CoreValues, failed \in FailedImports, missing \in MissingDirs :
         checker' = run_all_checks(version, psutil_available, total_mb,
                                   free_gb, cores, failed, missing)
    /\ UNCHANGED <<env_provider, api_keys, user_plan, pricing_raises, usage_summaries,
                   req, monitor>>

\* main, lines 220-224; an exception that main does not catch ends the
\* interpreter with a traceback and status 1
Exit ==
    /\ checker.pc = "checked"
    /\ checker' = [checker EXCEPT
                      !.pc = "exited",
                      !.exit_status = IF checker.raised # "none" THEN 1
                                      ELSE IF checker.issues # <<>> THEN 1 ELSE 0]
    /\ UNCHANGED <<env_provider, api_keys, user_plan, pricing_raises, usage_summaries,
                   req, monitor>>

InitRequirements ==
    /\ env_provider = ""
    /\ api_keys = {}
    /\ user_plan = [u \in Users |-> "pro"]
    /\ pricing_raises = FALSE
    /\ monitor = IdleMonitor
    /\ checker = IdleChecker
    /\ usage_summaries = [u \in Users |-> ZeroRow]
    /\ req = [r \in Requests |-> IdleRequest]

NextRequirements ==
    \/ RunAllChecks
    \/ Exit

SpecRequirements == InitRequirements /\ [][NextRequirements]_vars

\* one of the python/ram/disk/cpu checks returned False
SomeCheckFalse ==
    \E i \in 1 .. 4 : checker.results[i][2][1] = "False"

\* check_dependencies reported a critical dependency as missing
SomeDependencyMissing ==
    \E i \in 1 .. Len(critical_deps) : ~checker.results[5][2][i][2]

(***************************************************************************)
(* C40: the checker exits with status 1 exactly when one of the python,    *)
(* ram, disk and cpu checks returned False or a critical dependency is     *)
(* missing; in every other run it exits with status 0.                     *)
(***************************************************************************)
C40_Original ==
    checker.pc = "exited" =>
        ((checker.exit_status = 1) <=> (SomeCheckFalse \/ SomeDependencyMissing))

====
